---- MODULE Spec2Model ----
(***************************************************************************)
(* Model of the DeepSeek interactive chat session (interactive_chat.py)    *)
(* and of the LLM adapter's response consumers (deepseek_llm.py).          *)
(*                                                                         *)
(* A session owns a system prompt, a list of few-shot examples and a       *)
(* conversation history.  Prompts are modelled as the list of parts that   *)
(* the code joins with newlines; each part keeps the label the code gives  *)
(* it.  A server-sent-event line is modelled by what the consumer can      *)
(* observe of it: whether it is empty, whether it carries the data prefix, *)
(* what its payload is after trimming, and what json.loads makes of it.    *)
(***************************************************************************)
EXTENDS Integers, Sequences, FiniteSets, TLC

VARIABLES
    system_prompt,          \* self.system_prompt
    few_shot_examples,      \* self.few_shot_examples
    conversation_history,   \* self.conversation_history
    pc,                     \* where the session's current call stands
    user_input,             \* argument of the running chat_once / chat_stream
    full_prompt,            \* local full_prompt of the running call
    response,               \* the HTTP response the running call received
    pos,                    \* number of lines already taken from iter_lines()
    full_response,          \* local full_response (the accumulator)
    emitted,                \* what the running call has handed to its caller
    outcome,                \* how the last call of the session ended
    history_at_call,        \* the history when the running call started
    turns,                  \* number of exchanges started so far
    llm_pc,                 \* where a direct DeepSeekLLM call stands
    llm_response,           \* the HTTP response of a direct DeepSeekLLM call
    llm_pos,                \* lines taken by the direct _stream call
    llm_emitted,            \* chunks yielded by the direct _stream call
    llm_outcome,            \* how the last direct DeepSeekLLM call ended
    llm_request,            \* the request the last direct DeepSeekLLM call sent
    saved_file,             \* the file that /save writes and /load reads
    saved_state,            \* what the session held when that file was written
    stdin,                  \* the lines the user is still to type
    loop                    \* where start_interactive_chat stands

vars == << system_prompt, few_shot_examples, conversation_history, pc,
           user_input, full_prompt, response, pos, full_response,
           emitted, outcome, history_at_call, turns,
           llm_pc, llm_response, llm_pos, llm_emitted, llm_outcome, llm_request,
           saved_file, saved_state, stdin, loop >>

sessionVars == << system_prompt, few_shot_examples, conversation_history, pc,
                  user_input, full_prompt, response, pos, full_response,
                  emitted, outcome, history_at_call, turns >>

llmVars == << llm_pc, llm_response, llm_pos, llm_emitted, llm_outcome, llm_request >>

\* the file on disk
diskVars == << saved_file, saved_state >>

\* the interactive loop and its input
loopVars == << stdin, loop >>

\* what lies outside the session object and the adapter
outsideVars == << saved_file, saved_state, stdin, loop >>

-----------------------------------------------------------------------------
(* Bounds of the model *)

\* exchanges (chat_once / chat_stream calls) a run may start
MaxTurns == 2

\* lines of a streamed response explored line by line
MaxLines == 3

\* lines the user types into the interactive loop
MaxTyped == 2

\* exchanges of a run that fills the history by chatting alone
MaxExchanges == 11

-----------------------------------------------------------------------------
(* Program constants *)

\* self.max_history_length
max_history_length == 20

\* the literal 3 of add_few_shot_example
FewShotCapacity == 3

\* the literal 6 of conversation_history[-6:]
RecentWindow == 6

-----------------------------------------------------------------------------
(* Helpers *)

Min(a, b) == IF a < b THEN a ELSE b

Max(a, b) == IF a > b THEN a ELSE b

\* Python's s[-n:] on a list
LastN(s, n) == SubSeq(s, Max(1, Len(s) - n + 1), Len(s))

\* Python's "".join(seq) on text fragments
RECURSIVE Concat(_)
Concat(s) == IF s = << >> THEN "" ELSE Head(s) \o Concat(Tail(s))

-----------------------------------------------------------------------------
(* Data of a session *)

\* ChatMessage(role, content); the timestamp takes no part in any decision
ChatMessage(role, content) == [role |-> role, content |-> content]

\* FewShotExample(user_input, assistant_response, description)
FewShotExample(u, a, d) ==
    [user_input |-> u, assistant_response |-> a, description |-> d]

\* _get_default_system_prompt
DefaultSystemPrompt == "default system prompt"

\* _get_default_few_shot_examples: three examples
DefaultFewShotExamples ==
    << FewShotExample("efficiency?", "five methods", "work efficiency"),
       FewShotExample("exceptions?", "try-except", "python exceptions"),
       FewShotExample("blockchain?", "ledger", "blockchain") >>

\* inputs offered to update_system_prompt
NewPrompts == { "terse prompt" }

\* inputs offered to add_few_shot_example
NewExamples == { FewShotExample("q4", "a4", "d4") }

\* lines the user types as chat turns
UserInputs == { "hi", "why" }

\* the line typed for the exchange whose stream is explored line by line
StreamInputs == { "hi" }

-----------------------------------------------------------------------------
(* Few-shot set *)

\* a plausible slip: the newest example is evicted, not the oldest
add_few_shot_example_evict_newest(examples, example) ==
    IF Len(examples) >= FewShotCapacity
    THEN Append(SubSeq(examples, 1, Len(examples) - 1), example)
    ELSE Append(examples, example)

\* add_few_shot_example: pop(0) when there are already 3 or more, then append
add_few_shot_example(examples, example) ==
    IF Len(examples) >= FewShotCapacity
    THEN Append(Tail(examples), example)
    ELSE Append(examples, example)

-----------------------------------------------------------------------------
(* History *)

\* a plausible slip: keep the head instead of the tail
add_to_history_keephead(history, role, content) ==
    LET appended == Append(history, ChatMessage(role, content))
    IN  IF Len(appended) > max_history_length
        THEN SubSeq(appended, 1, max_history_length)
        ELSE appended

\* _add_to_history: append, then keep the last max_history_length entries
add_to_history(history, role, content) ==
    LET appended == Append(history, ChatMessage(role, content))
    IN  IF Len(appended) > max_history_length
        THEN LastN(appended, max_history_length)
        ELSE appended

-----------------------------------------------------------------------------
(* Prompt assembly.  The prompt is the list context_parts that the code    *)
(* joins with "\n"; kind names the statement that produced the part.       *)

Part(kind, text) == [kind |-> kind, text |-> text]

\* parts 2: header, then per example its number, user line and assistant line
FewShotParts(examples) ==
    IF examples = << >> THEN << >>
    ELSE << Part("fewshot_header", "") >> \o
         [ j \in 1..(3 * Len(examples)) |->
             LET i == ((j - 1) \div 3) + 1
                 k == (j - 1) % 3
             IN  IF k = 0 THEN Part("example_no", ToString(i))
                 ELSE IF k = 1 THEN Part("fs_user", examples[i].user_input)
                 ELSE Part("fs_assistant", examples[i].assistant_response) ]

\* the if / elif on msg.role: any other role appends nothing
IsRendered(msg) == msg.role \in { "user", "assistant" }

HistoryLine(msg) ==
    IF msg.role = "user" THEN Part("hist_user", msg.content)
    ELSE Part("hist_assistant", msg.content)

\* a plausible slip: render the whole history
HistoryParts_all(history) ==
    IF history = << >> THEN << >>
    ELSE LET shown == SelectSeq(history, IsRendered)
         IN  << Part("history_header", "") >> \o
             [ i \in 1..Len(shown) |-> HistoryLine(shown[i]) ] \o
             << Part("blank", "") >>

\* parts 3: header, the rendered lines of the last 6 messages, an empty part
HistoryParts(history) ==
    IF history = << >> THEN << >>
    ELSE LET recent_history == LastN(history, RecentWindow)
             shown == SelectSeq(recent_history, IsRendered)
         IN  << Part("history_header", "") >> \o
             [ i \in 1..Len(shown) |-> HistoryLine(shown[i]) ] \o
             << Part("blank", "") >>

\* a plausible slip: history placed before the examples
build_prompt_with_context_swapped(sp, examples, history, input) ==
    << Part("system", sp) >> \o HistoryParts(history) \o FewShotParts(examples)
        \o << Part("question", input) >>

\* _build_prompt_with_context
build_prompt_with_context(sp, examples, history, input) ==
    << Part("system", sp) >> \o FewShotParts(examples) \o HistoryParts(history)
        \o << Part("question", input) >>

-----------------------------------------------------------------------------
(* Server-sent-event lines.  A line is what iter_lines() hands over:       *)
(*   raw_empty  the line is the empty byte string (a keep-alive)           *)
(*   prefix     the decoded line starts with 'data: '                      *)
(*   pad        the payload line[6:] carries surrounding whitespace        *)
(*   body       the payload without that whitespace                        *)
(*   json       what json.loads returns for the payload when body = "json" *)

\* the value json.loads returns, by what the consumers ask of it
Json(is_object, has_choices, n_choices, has_delta, has_content, content_null, content) ==
    [ is_object    |-> is_object,      \* a dict; otherwise a number
      has_choices  |-> has_choices,    \* 'choices' in data
      n_choices    |-> n_choices,      \* len(data['choices'])
      has_delta    |-> has_delta,      \* 'delta' in data['choices'][0]
      has_content  |-> has_content,    \* 'content' in delta
      content_null |-> content_null,   \* delta['content'] is None
      content      |-> content ]       \* delta['content'] when it is text

NoJson == Json(FALSE, FALSE, 0, FALSE, FALSE, FALSE, "")

Line(raw_empty, prefix, pad, body, json) ==
    [ raw_empty |-> raw_empty, prefix |-> prefix, pad |-> pad,
      body |-> body, json |-> json ]

BlankLine == Line(TRUE, FALSE, FALSE, "", NoJson)

\* e.g. ': keep-alive' or 'event: message'
NoPrefixLine == Line(FALSE, FALSE, FALSE, "", NoJson)

DoneLine == Line(FALSE, TRUE, FALSE, "[DONE]", NoJson)

\* 'data:  [DONE] '
DonePaddedLine == Line(FALSE, TRUE, TRUE, "[DONE]", NoJson)

\* 'data: {"choices": [' : not parseable
BadJsonLine == Line(FALSE, TRUE, FALSE, "{bad", NoJson)

\* 'data: 5' : parseable, but no dict
NumberLine == Line(FALSE, TRUE, FALSE, "json", NoJson)

\* 'data: {"id": 1}'
NoChoicesLine ==
    Line(FALSE, TRUE, FALSE, "json", Json(TRUE, FALSE, 0, FALSE, FALSE, FALSE, ""))

\* 'data: {"choices": []}'
EmptyChoicesLine ==
    Line(FALSE, TRUE, FALSE, "json", Json(TRUE, TRUE, 0, FALSE, FALSE, FALSE, ""))

\* 'data: {"choices": [{"index": 0}]}'
NoDeltaLine ==
    Line(FALSE, TRUE, FALSE, "json", Json(TRUE, TRUE, 1, FALSE, FALSE, FALSE, ""))

\* 'data: {"choices": [{"delta": {"role": "assistant"}}]}'
NoContentLine ==
    Line(FALSE, TRUE, FALSE, "json", Json(TRUE, TRUE, 1, TRUE, FALSE, FALSE, ""))

\* 'data: {"choices": [{"delta": {"content": null}}]}'
NullContentLine ==
    Line(FALSE, TRUE, FALSE, "json", Json(TRUE, TRUE, 1, TRUE, TRUE, TRUE, ""))

\* 'data: {"choices": [{"delta": {"content": text}}]}'
DeltaLine(text) ==
    Line(FALSE, TRUE, FALSE, "json", Json(TRUE, TRUE, 1, TRUE, TRUE, FALSE, text))

\* data_str.strip()
Strip(line) == line.body

\* json.loads(data_str) succeeds
Parses(line) == line.body = "json"

\* what one pass of the loop body does with a line
Step(act, chunk) == [act |-> act, chunk |-> chunk]

\* a plausible slip: the sentinel compared without strip()
chat_stream_line_nostrip(line) ==
    IF line.raw_empty THEN Step("skip", "")
    ELSE IF ~line.prefix THEN Step("skip", "")
    ELSE IF line.body = "[DONE]" /\ ~line.pad THEN Step("break", "")
    ELSE IF ~Parses(line) THEN Step("skip", "")
    ELSE IF ~line.json.is_object THEN Step("raise", "TypeError")
    ELSE IF line.json.has_choices /\ line.json.n_choices > 0
         THEN IF line.json.has_delta /\ line.json.has_content
              THEN IF line.json.content_null THEN Step("raise", "TypeError")
                   ELSE Step("yield", line.json.content)
              ELSE Step("skip", "")
         ELSE Step("skip", "")

\* a plausible slip: JSONDecodeError not caught inside the loop
chat_stream_line_nocatch(line) ==
    IF line.raw_empty THEN Step("skip", "")
    ELSE IF ~line.prefix THEN Step("skip", "")
    ELSE IF Strip(line) = "[DONE]" THEN Step("break", "")
    ELSE IF ~Parses(line) THEN Step("raise", "JSONDecodeError")
    ELSE IF ~line.json.is_object THEN Step("raise", "TypeError")
    ELSE IF line.json.has_choices /\ line.json.n_choices > 0
         THEN IF line.json.has_delta /\ line.json.has_content
              THEN IF line.json.content_null THEN Step("raise", "TypeError")
                   ELSE Step("yield", line.json.content)
              ELSE Step("skip", "")
         ELSE Step("skip", "")

\* chat_stream, the body of `for line in response.iter_lines()`:
\*   "break"  the end sentinel
\*   "skip"   nothing is done with the line (also: JSONDecodeError, continue)
\*   "yield"  full_response += chunk; yield chunk
\*   "raise"  an exception (named in chunk) leaves the loop for `except Exception`
chat_stream_line(line) ==
    IF line.raw_empty THEN Step("skip", "")
    ELSE IF ~line.prefix THEN Step("skip", "")
    ELSE IF Strip(line) = "[DONE]" THEN Step("break", "")
    ELSE IF ~Parses(line) THEN Step("skip", "")
    ELSE IF ~line.json.is_object THEN Step("raise", "TypeError")
    ELSE IF line.json.has_choices /\ line.json.n_choices > 0
         THEN IF line.json.has_delta /\ line.json.has_content
              THEN IF line.json.content_null THEN Step("raise", "TypeError")
                   ELSE Step("yield", line.json.content)
              ELSE Step("skip", "")
         ELSE Step("skip", "")

\* DeepSeekLLM._stream, the body of `for line in response.iter_lines()`:
\* content = delta.get("content", ""), and a chunk only `if content`
LLM_stream_line(line) ==
    IF line.raw_empty THEN Step("skip", "")
    ELSE IF ~line.prefix THEN Step("skip", "")
    ELSE IF Strip(line) = "[DONE]" THEN Step("break", "")
    ELSE IF ~Parses(line) THEN Step("skip", "")
    ELSE IF ~line.json.is_object THEN Step("raise", "TypeError")
    ELSE IF line.json.has_choices /\ line.json.n_choices > 0
         THEN LET content == IF line.json.has_delta /\ line.json.has_content
                                  /\ ~line.json.content_null
                             THEN line.json.content ELSE ""
              IN  IF content # "" THEN Step("yield", content)
                  ELSE Step("skip", "")
         ELSE Step("skip", "")

-----------------------------------------------------------------------------
(* HTTP responses *)

\* what requests.post / raise_for_status / response.json() deliver
HttpResponse(connected, status_ok, has_choices, n_choices, content, lines) ==
    [ connected   |-> connected,     \* requests.post returned
      status_ok   |-> status_ok,     \* raise_for_status() passes (2xx)
      has_choices |-> has_choices,   \* "choices" in result
      n_choices   |-> n_choices,     \* len(result["choices"])
      content     |-> content,       \* result["choices"][0]["message"]["content"]
      lines       |-> lines ]        \* response.iter_lines()

ConnectionFailure == HttpResponse(FALSE, FALSE, FALSE, 0, "", << >>)

HttpErrorStatus == HttpResponse(TRUE, FALSE, FALSE, 0, "", << >>)

Completion(text) == HttpResponse(TRUE, TRUE, TRUE, 1, text, << >>)

NoChoicesBody == HttpResponse(TRUE, TRUE, FALSE, 0, "", << >>)

EmptyChoicesBody == HttpResponse(TRUE, TRUE, TRUE, 0, "", << >>)

EventStream(lines) == HttpResponse(TRUE, TRUE, FALSE, 0, "", lines)

\* no request has been made
NoResponse == EventStream(<< >>)

\* the request never yields a usable response: RequestException
TransportFails(resp) == ~resp.connected \/ ~resp.status_ok

\* result of a call: a returned value or a raised exception
Returned(value) == [raised |-> FALSE, exception |-> "", message |-> "", value |-> value]

Raised(exception, message) ==
    [raised |-> TRUE, exception |-> exception, message |-> message, value |-> ""]

\* a plausible slip: a failed request answered with an empty completion
LLM_call_swallow(resp) ==
    IF TransportFails(resp) THEN Returned("")
    ELSE IF resp.has_choices /\ resp.n_choices > 0 THEN Returned(resp.content)
    ELSE Raised("RuntimeError", "DeepSeek API error")

\* a plausible slip: the empty answer reported by the request-failure handler
LLM_call_one_handler(resp) ==
    IF TransportFails(resp)
    THEN Raised("RuntimeError", "DeepSeek API request failed")
    ELSE IF resp.has_choices /\ resp.n_choices > 0 THEN Returned(resp.content)
    ELSE Raised("RuntimeError", "DeepSeek API request failed")

\* DeepSeekLLM._call from requests.post on
LLM_call(resp) ==
    IF TransportFails(resp)
    THEN Raised("RuntimeError", "DeepSeek API request failed")
    ELSE IF resp.has_choices /\ resp.n_choices > 0 THEN Returned(resp.content)
    ELSE Raised("RuntimeError", "DeepSeek API error")

\* str(e) of the exception a failed request raises
TransportException(resp) == IF ~resp.connected THEN "ConnectionError" ELSE "HTTPError"

\* error_msg of chat_once
ChatErrorMsg(e) == "chat error: " \o e

\* error_msg of chat_stream
StreamErrorMsg(e) == "stream error: " \o e

-----------------------------------------------------------------------------
(* Requests of the adapter.  The body is the dict `data`: a function from   *)
(* its keys to their values.                                               *)

\* the stop argument: None, or a list of sequences (which may be empty)
Stop(given, seqs) == [given |-> given, seqs |-> seqs]

NoStop == Stop(FALSE, << >>)

\* `if stop:` : neither None nor an empty list
Truthy(stop) == stop.given /\ stop.seqs # << >>

\* **kwargs: a function from the keys given to their values
NoKwargs == [k \in {} |-> ""]

\* the arguments of _call / _stream
Args(prompt, stop, kwargs) == [prompt |-> prompt, stop |-> stop, kwargs |-> kwargs]

\* the fields of self that go into a request
model_name == "deepseek-chat"

temperature == "0.7"

max_tokens == "1024"

top_p == "0.95"

\* data = {...}
BaseData(stream, prompt) ==
    [ model       |-> model_name,
      messages    |-> << [role |-> "user", content |-> prompt] >>,
      temperature |-> temperature,
      max_tokens  |-> max_tokens,
      top_p       |-> top_p,
      stream      |-> stream ]

\* dict.update: the keys of both, the values of `other` where it has the key
Update(data, other) ==
    [ k \in (DOMAIN data) \cup (DOMAIN other) |->
        IF k \in DOMAIN other THEN other[k] ELSE data[k] ]

\* data["stop"] = stop
WithStop(data, stop) == Update(data, [k \in {"stop"} |-> stop.seqs])

\* a plausible slip: the caller's overrides applied first, the fields after
build_request_overrides_first(stream, args) ==
    LET data == Update(args.kwargs, BaseData(stream, args.prompt))
    IN  IF Truthy(args.stop) THEN WithStop(data, args.stop) ELSE data

\* the body that _call (stream = FALSE) and _stream (stream = TRUE) send
build_request(stream, args) ==
    LET data == BaseData(stream, args.prompt)
        stopped == IF Truthy(args.stop) THEN WithStop(data, args.stop) ELSE data
    IN  Update(stopped, args.kwargs)

\* a request as sent: who built it, from what, and the body
Request(op, args, body) == [op |-> op, args |-> args, body |-> body]

NoRequest == Request("none", Args("", NoStop, NoKwargs), NoKwargs)

-----------------------------------------------------------------------------
(* Saved conversation files, as load_conversation reads them *)

\* a history record of a file
FileMessage(has_keys, role, content) ==
    [has_keys |-> has_keys, role |-> role, content |-> content]

\* an example record of a file
FileExample(has_keys, has_description, u, a, d) ==
    [ has_keys |-> has_keys, has_description |-> has_description,
      user_input |-> u, assistant_response |-> a, description |-> d ]

ConversationFile(readable, has_sp, sp, has_fs, fs, has_h, h) ==
    [ readable |-> readable,               \* open() and json.load() succeed
      has_system_prompt |-> has_sp, system_prompt |-> sp,
      has_few_shot_examples |-> has_fs, few_shot_examples |-> fs,
      has_conversation_history |-> has_h, conversation_history |-> h ]

\* a file with four examples and a history of 22 alternating turns
LongFile ==
    ConversationFile(TRUE, TRUE, "loaded prompt",
        TRUE, [ i \in 1..4 |-> FileExample(TRUE, TRUE, "fq" \o ToString(i),
                                            "fa" \o ToString(i), "fd") ],
        TRUE, [ i \in 1..22 |-> FileMessage(TRUE,
                    IF i % 2 = 1 THEN "user" ELSE "assistant",
                    "m" \o ToString(i)) ])

\* a file holding only a history, one entry of which has the role system
SystemRoleFile ==
    ConversationFile(TRUE, FALSE, "", FALSE, << >>,
        TRUE, [ i \in 1..7 |-> FileMessage(TRUE,
                    IF i = 4 THEN "system"
                    ELSE IF i % 2 = 1 THEN "user" ELSE "assistant",
                    "s" \o ToString(i)) ])

\* a file whose second history record lacks the content key
BrokenFile ==
    ConversationFile(TRUE, TRUE, "broken prompt",
        TRUE, << FileExample(TRUE, FALSE, "bq", "ba", "") >>,
        TRUE, << FileMessage(TRUE, "user", "b1"), FileMessage(FALSE, "assistant", "") >>)

\* no such file, or not JSON
UnreadableFile == ConversationFile(FALSE, FALSE, "", FALSE, << >>, FALSE, << >>)

Files == { LongFile, SystemRoleFile, BrokenFile, UnreadableFile }

\* what a session held when a file was written from it
SavedState(written, sp, examples, history) ==
    [written |-> written, system_prompt |-> sp, few_shot_examples |-> examples,
     conversation_history |-> history]

NothingSaved == SavedState(FALSE, "", << >>, << >>)

\* the list comprehension over few_shot_examples raises KeyError
ExamplesRaise(f) ==
    \E i \in 1..Len(f.few_shot_examples) : ~f.few_shot_examples[i].has_keys

\* the list comprehension over conversation_history raises KeyError
HistoryRaises(f) ==
    \E i \in 1..Len(f.conversation_history) : ~f.conversation_history[i].has_keys

LoadedExamples(f) ==
    [ i \in 1..Len(f.few_shot_examples) |->
        LET ex == f.few_shot_examples[i]
        IN  FewShotExample(ex.user_input, ex.assistant_response,
                           IF ex.has_description THEN ex.description ELSE "") ]

LoadedHistory(f) ==
    [ i \in 1..Len(f.conversation_history) |->
        ChatMessage(f.conversation_history[i].role, f.conversation_history[i].content) ]

\* load_conversation ends in its except branch
LoadFails(f) ==
    \/ ~f.readable
    \/ f.has_few_shot_examples /\ ExamplesRaise(f)
    \/ f.has_conversation_history /\ HistoryRaises(f)

\* the records save_conversation writes for the examples
SavedExamples(examples) ==
    [ i \in 1..Len(examples) |->
        FileExample(TRUE, TRUE, examples[i].user_input,
                    examples[i].assistant_response, examples[i].description) ]

\* the records save_conversation writes for the history
SavedHistory(history) ==
    [ i \in 1..Len(history) |-> FileMessage(TRUE, history[i].role, history[i].content) ]

\* a plausible slip: the description of an example is not written
conversation_data_nodescription(sp, examples, history) ==
    ConversationFile(TRUE, TRUE, sp,
        TRUE, [ i \in 1..Len(examples) |->
                  FileExample(TRUE, FALSE, examples[i].user_input,
                              examples[i].assistant_response, "") ],
        TRUE, SavedHistory(history))

\* conversation_data of save_conversation, as json.dump writes it
conversation_data(sp, examples, history) ==
    ConversationFile(TRUE, TRUE, sp, TRUE, SavedExamples(examples),
                     TRUE, SavedHistory(history))

\* load_conversation, statement by statement; an exception ends it where it is
load_system_prompt(f, sp) ==
    IF f.readable /\ f.has_system_prompt THEN f.system_prompt ELSE sp

load_few_shot_examples(f, examples) ==
    IF f.readable /\ f.has_few_shot_examples /\ ~ExamplesRaise(f)
    THEN LoadedExamples(f) ELSE examples

load_conversation_history(f, history) ==
    IF /\ f.readable
       /\ ~(f.has_few_shot_examples /\ ExamplesRaise(f))
       /\ f.has_conversation_history /\ ~HistoryRaises(f)
    THEN LoadedHistory(f) ELSE history

-----------------------------------------------------------------------------
(* Inputs of the explored runs *)

\* the event lines a streamed response is built from
SseLines ==
    { BlankLine, NoPrefixLine, DoneLine, DonePaddedLine, BadJsonLine, NumberLine,
      NoChoicesLine, EmptyChoicesLine, NoDeltaLine, NoContentLine, NullContentLine,
      DeltaLine(""), DeltaLine("A"), DeltaLine("B") }

\* every streamed response of at most MaxLines lines, and the failed requests
AllStreams ==
    { EventStream(l) : l \in UNION { [1..n -> SseLines] : n \in 0..MaxLines } }
        \cup { ConnectionFailure, HttpErrorStatus }

\* the streamed responses offered to a session that also does everything else
SessionStreams ==
    { ConnectionFailure, HttpErrorStatus,
      EventStream(<< DeltaLine("A"), BadJsonLine, DeltaLine("B"), DoneLine, DeltaLine("A") >>),
      EventStream(<< DeltaLine("A"), DeltaLine("B") >>),
      EventStream(<< DeltaLine("A"), NullContentLine, DeltaLine("B") >>) }

\* the responses offered to chat_once
CallResponses ==
    { ConnectionFailure, HttpErrorStatus, NoChoicesBody, EmptyChoicesBody,
      Completion("R") }

NoResult == [raised |-> FALSE, exception |-> "none", message |-> "", value |-> ""]

\* a call with the prompt alone
PlainArgs == Args("hi", NoStop, NoKwargs)

\* the stop arguments offered
Stops == { NoStop, Stop(TRUE, << >>), Stop(TRUE, << "END" >>) }

\* the keyword overrides offered
Overrides ==
    { NoKwargs,
      [k \in {"temperature"} |-> "0.1"],
      [k \in {"stream"} |-> TRUE],
      [k \in {"stream"} |-> FALSE],
      [k \in {"messages"} |-> << [role |-> "system", content |-> "be brief"] >>],
      [k \in {"model", "user"} |-> IF k = "model" THEN "deepseek-coder" ELSE "u1"] }

\* the arguments offered to a direct call
RequestArgs ==
    { Args(p, stop, kw) : p \in { "hi", "why" }, stop \in Stops, kw \in Overrides }

\* the streamed responses offered to a direct call whose request is looked at
RequestStreams ==
    { EventStream(<< >>),
      EventStream(<< BlankLine, DeltaLine("A"), DoneLine >>),
      EventStream(<< DeltaLine("A"), NumberLine >>) }

-----------------------------------------------------------------------------
(* State after DeepSeekInteractiveChat() *)

Init ==
    /\ system_prompt = DefaultSystemPrompt
    /\ few_shot_examples = DefaultFewShotExamples
    /\ conversation_history = << >>
    /\ pc = "idle"
    /\ user_input = ""
    /\ full_prompt = << >>
    /\ response = NoResponse
    /\ pos = 0
    /\ full_response = ""
    /\ emitted = << >>
    /\ outcome = "none"
    /\ history_at_call = << >>
    /\ turns = 0
    /\ llm_pc = "idle"
    /\ llm_response = NoResponse
    /\ llm_pos = 0
    /\ llm_emitted = << >>
    /\ llm_outcome = NoResult
    /\ llm_request = NoRequest
    /\ saved_file = UnreadableFile
    /\ saved_state = NothingSaved
    /\ stdin = << >>
    /\ loop = "off"

callVars == << user_input, full_prompt, response, pos, full_response,
               emitted, outcome, history_at_call, turns >>

-----------------------------------------------------------------------------
(* Session operations.  The variables of a call describe the latest       *)
(* operation of the session; any other operation leaves nothing in them.   *)

Forget(result) ==
    /\ user_input' = "" /\ full_prompt' = << >> /\ response' = NoResponse
    /\ pos' = 0 /\ full_response' = "" /\ emitted' = << >>
    /\ outcome' = result /\ history_at_call' = << >> /\ llm_outcome' = NoResult
    /\ UNCHANGED << pc, turns, llm_pc, llm_response, llm_pos, llm_emitted,
                    llm_request >>

ForgetCall == Forget("none")

update_system_prompt(new_prompt) ==
    /\ pc = "idle"
    /\ system_prompt' = new_prompt
    /\ ForgetCall
    /\ UNCHANGED << few_shot_examples, conversation_history >>

AddFewShotExample(example) ==
    /\ pc = "idle"
    /\ few_shot_examples' = add_few_shot_example(few_shot_examples, example)
    /\ ForgetCall
    /\ UNCHANGED << system_prompt, conversation_history >>

clear_few_shot_examples ==
    /\ pc = "idle"
    /\ few_shot_examples' = << >>
    /\ ForgetCall
    /\ UNCHANGED << system_prompt, conversation_history >>

clear_history ==
    /\ pc = "idle"
    /\ conversation_history' = << >>
    /\ ForgetCall
    /\ UNCHANGED << system_prompt, few_shot_examples >>

\* the message printed last tells how the load ended
load_conversation(f) ==
    /\ pc = "idle"
    /\ system_prompt' = load_system_prompt(f, system_prompt)
    /\ few_shot_examples' = load_few_shot_examples(f, few_shot_examples)
    /\ conversation_history' = load_conversation_history(f, conversation_history)
    /\ Forget(IF LoadFails(f) THEN "load_failed" ELSE "loaded")

\* save_conversation: the file is written
SaveConversation ==
    /\ pc = "idle"
    /\ saved_file' = conversation_data(system_prompt, few_shot_examples,
                                       conversation_history)
    /\ saved_state' = SavedState(TRUE, system_prompt, few_shot_examples,
                                 conversation_history)
    /\ Forget("saved")
    /\ UNCHANGED << system_prompt, few_shot_examples, conversation_history >>

\* save_conversation ends in its except branch: open() raised and the file is
\* as it was, or the write broke off and the file is no longer readable
SaveConversationFails(truncated) ==
    /\ pc = "idle"
    /\ saved_file' = IF truncated THEN UnreadableFile ELSE saved_file
    /\ saved_state' = IF truncated THEN NothingSaved ELSE saved_state
    /\ Forget("save_failed")
    /\ UNCHANGED << system_prompt, few_shot_examples, conversation_history >>

-----------------------------------------------------------------------------
(* chat_once *)

\* the call fails: the error text is returned in place of a reply
ChatOnceError(u, resp) ==
    /\ pc = "idle"
    /\ LLM_call(resp).raised
    /\ turns' = turns + 1
    /\ user_input' = u
    /\ full_prompt' = build_prompt_with_context(system_prompt, few_shot_examples,
                                                conversation_history, u)
    /\ history_at_call' = conversation_history
    /\ llm_outcome' = LLM_call(resp)
    /\ response' = resp /\ pos' = 0 /\ full_response' = ""
    /\ emitted' = << ChatErrorMsg(LLM_call(resp).message) >>
    /\ outcome' = "error"
    /\ UNCHANGED << system_prompt, few_shot_examples, conversation_history, pc,
                    llm_pc, llm_response, llm_pos, llm_emitted,
                    llm_request >>

\* the call returns: the two appends follow
ChatOnceReply(u, resp) ==
    /\ pc = "idle"
    /\ ~LLM_call(resp).raised
    /\ turns' = turns + 1
    /\ user_input' = u
    /\ full_prompt' = build_prompt_with_context(system_prompt, few_shot_examples,
                                                conversation_history, u)
    /\ history_at_call' = conversation_history
    /\ llm_outcome' = LLM_call(resp)
    /\ response' = resp /\ pos' = 0
    /\ full_response' = LLM_call(resp).value
    /\ emitted' = << LLM_call(resp).value >>
    /\ outcome' = "running"
    /\ pc' = "add_user"
    /\ UNCHANGED << system_prompt, few_shot_examples, conversation_history,
                    llm_pc, llm_response, llm_pos, llm_emitted,
                    llm_request >>

\* self._add_to_history("user", user_input)
AddUserToHistory ==
    /\ pc = "add_user"
    /\ conversation_history' = add_to_history(conversation_history, "user", user_input)
    /\ pc' = "add_assistant"
    /\ UNCHANGED << system_prompt, few_shot_examples, callVars, llmVars >>

\* self._add_to_history("assistant", response / full_response); the call ends
AddAssistantToHistory ==
    /\ pc = "add_assistant"
    /\ conversation_history' =
           add_to_history(conversation_history, "assistant", full_response)
    /\ pc' = "idle"
    /\ outcome' = "completed"
    /\ UNCHANGED << system_prompt, few_shot_examples, user_input, full_prompt,
                    response, pos, full_response, emitted, history_at_call,
                    turns, llmVars >>

-----------------------------------------------------------------------------
(* chat_stream, a generator: the caller pulls one fragment at a time *)

sessionState == << system_prompt, few_shot_examples, conversation_history >>

\* the request fails: the error text is yielded in place of a reply
ChatStreamFails(u, resp) ==
    /\ pc = "idle"
    /\ TransportFails(resp)
    /\ turns' = turns + 1
    /\ user_input' = u
    /\ full_prompt' = build_prompt_with_context(system_prompt, few_shot_examples,
                                                conversation_history, u)
    /\ history_at_call' = conversation_history
    /\ response' = resp /\ pos' = 0 /\ full_response' = ""
    /\ emitted' = << StreamErrorMsg(TransportException(resp)) >>
    /\ outcome' = "error"
    /\ llm_outcome' = NoResult
    /\ UNCHANGED << sessionState, pc, llm_pc, llm_response, llm_pos, llm_emitted,
                    llm_request >>

\* a plausible slip: building the prompt records the user input at once
ChatStreamOpens_recording(u, resp) ==
    /\ pc = "idle"
    /\ ~TransportFails(resp)
    /\ turns' = turns + 1
    /\ user_input' = u
    /\ full_prompt' = build_prompt_with_context(system_prompt, few_shot_examples,
                                                conversation_history, u)
    /\ conversation_history' = add_to_history(conversation_history, "user", u)
    /\ history_at_call' = conversation_history
    /\ response' = resp /\ pos' = 0 /\ full_response' = ""
    /\ emitted' = << >>
    /\ outcome' = "running"
    /\ pc' = "iter"
    /\ llm_outcome' = NoResult
    /\ UNCHANGED << system_prompt, few_shot_examples, llm_pc, llm_response, llm_pos,
                    llm_emitted, llm_request >>

\* the request succeeds: the loop over iter_lines() is entered
ChatStreamOpens(u, resp) ==
    /\ pc = "idle"
    /\ ~TransportFails(resp)
    /\ turns' = turns + 1
    /\ user_input' = u
    /\ full_prompt' = build_prompt_with_context(system_prompt, few_shot_examples,
                                                conversation_history, u)
    /\ history_at_call' = conversation_history
    /\ response' = resp /\ pos' = 0 /\ full_response' = ""
    /\ emitted' = << >>
    /\ outcome' = "running"
    /\ pc' = "iter"
    /\ llm_outcome' = NoResult
    /\ UNCHANGED << sessionState, llm_pc, llm_response, llm_pos, llm_emitted,
                    llm_request >>

NextLine == response.lines[pos + 1]

\* blank line, line without the data prefix, JSONDecodeError, or no content
StreamSkip ==
    /\ pc = "iter" /\ pos < Len(response.lines)
    /\ chat_stream_line(NextLine).act = "skip"
    /\ pos' = pos + 1
    /\ UNCHANGED << sessionState, pc, user_input, full_prompt, response,
                    full_response, emitted, outcome, history_at_call, turns, llmVars >>

\* the end sentinel: break
StreamBreak ==
    /\ pc = "iter" /\ pos < Len(response.lines)
    /\ chat_stream_line(NextLine).act = "break"
    /\ pos' = pos + 1
    /\ pc' = "add_user"
    /\ UNCHANGED << sessionState, user_input, full_prompt, response,
                    full_response, emitted, outcome, history_at_call, turns, llmVars >>

\* a plausible slip: the chunk is yielded but not accumulated
StreamYield_noaccumulate ==
    /\ pc = "iter" /\ pos < Len(response.lines)
    /\ chat_stream_line(NextLine).act = "yield"
    /\ pos' = pos + 1
    /\ emitted' = Append(emitted, chat_stream_line(NextLine).chunk)
    /\ pc' = "yielded"
    /\ UNCHANGED << sessionState, user_input, full_prompt, response, full_response,
                    outcome, history_at_call, turns, llmVars >>

\* a plausible slip: the history is extended as each chunk arrives
StreamYield_incremental ==
    /\ pc = "iter" /\ pos < Len(response.lines)
    /\ chat_stream_line(NextLine).act = "yield"
    /\ pos' = pos + 1
    /\ full_response' = full_response \o chat_stream_line(NextLine).chunk
    /\ emitted' = Append(emitted, chat_stream_line(NextLine).chunk)
    /\ conversation_history' =
           add_to_history(conversation_history, "assistant",
                          chat_stream_line(NextLine).chunk)
    /\ pc' = "yielded"
    /\ UNCHANGED << system_prompt, few_shot_examples, user_input, full_prompt,
                    response, outcome, history_at_call, turns, llmVars >>

\* full_response += chunk; yield chunk
StreamYield ==
    /\ pc = "iter" /\ pos < Len(response.lines)
    /\ chat_stream_line(NextLine).act = "yield"
    /\ pos' = pos + 1
    /\ full_response' = full_response \o chat_stream_line(NextLine).chunk
    /\ emitted' = Append(emitted, chat_stream_line(NextLine).chunk)
    /\ pc' = "yielded"
    /\ UNCHANGED << sessionState, user_input, full_prompt, response,
                    outcome, history_at_call, turns, llmVars >>

\* an exception inside the loop reaches `except Exception`: yield error_msg
StreamRaise ==
    /\ pc = "iter" /\ pos < Len(response.lines)
    /\ chat_stream_line(NextLine).act = "raise"
    /\ pos' = pos + 1
    /\ emitted' = Append(emitted, StreamErrorMsg(chat_stream_line(NextLine).chunk))
    /\ outcome' = "error"
    /\ pc' = "idle"
    /\ UNCHANGED << sessionState, user_input, full_prompt, response,
                    full_response, history_at_call, turns, llmVars >>

\* iter_lines() is exhausted: the connection was closed by the server
StreamExhausted ==
    /\ pc = "iter" /\ pos = Len(response.lines)
    /\ pc' = "add_user"
    /\ UNCHANGED << sessionState, callVars, llmVars >>

\* a plausible slip: what had arrived is recorded when the connection breaks
StreamConnectionLost_saving ==
    /\ pc = "iter"
    /\ emitted' = Append(emitted, StreamErrorMsg("ChunkedEncodingError"))
    /\ conversation_history' =
           add_to_history(add_to_history(conversation_history, "user", user_input),
                          "assistant", full_response)
    /\ outcome' = "error"
    /\ pc' = "idle"
    /\ UNCHANGED << system_prompt, few_shot_examples, user_input, full_prompt,
                    response, pos, full_response, history_at_call, turns, llmVars >>

\* iter_lines() raises: the connection broke mid-stream
StreamConnectionLost ==
    /\ pc = "iter"
    /\ emitted' = Append(emitted, StreamErrorMsg("ChunkedEncodingError"))
    /\ outcome' = "error"
    /\ pc' = "idle"
    /\ UNCHANGED << sessionState, user_input, full_prompt, response, pos,
                    full_response, history_at_call, turns, llmVars >>

\* the caller asks for the next fragment
CallerPull ==
    /\ pc = "yielded"
    /\ pc' = "iter"
    /\ UNCHANGED << sessionState, callVars, llmVars >>

\* a plausible slip: the user input is recorded before the reply is complete
CallerStop_recording ==
    /\ pc = "yielded"
    /\ pc' = "idle"
    /\ outcome' = "abandoned"
    /\ conversation_history' = add_to_history(conversation_history, "user", user_input)
    /\ UNCHANGED << system_prompt, few_shot_examples, user_input, full_prompt,
                    response, pos, full_response, emitted, history_at_call, turns,
                    llmVars >>

\* the caller stops iterating: the generator is closed at its yield
CallerStop ==
    /\ pc = "yielded"
    /\ pc' = "idle"
    /\ outcome' = "abandoned"
    /\ UNCHANGED << sessionState, user_input, full_prompt, response, pos,
                    full_response, emitted, history_at_call, turns, llmVars >>

-----------------------------------------------------------------------------
(* DeepSeekLLM called directly *)

LLMCall(args, resp) ==
    /\ llm_pc = "idle"
    /\ llm_request' = Request("_call", args, build_request(FALSE, args))
    /\ llm_outcome' = LLM_call(resp)
    /\ llm_response' = resp /\ llm_pos' = 0 /\ llm_emitted' = << >>
    /\ UNCHANGED << sessionVars, llm_pc >>

\* _stream: the request fails
LLMStreamFails(args, resp) ==
    /\ llm_pc = "idle"
    /\ TransportFails(resp)
    /\ llm_request' = Request("_stream", args, build_request(TRUE, args))
    /\ llm_outcome' = Raised("RuntimeError", "DeepSeek API streaming request failed")
    /\ llm_response' = resp /\ llm_pos' = 0 /\ llm_emitted' = << >>
    /\ UNCHANGED << sessionVars, llm_pc >>

\* _stream: the loop over iter_lines() is entered
LLMStreamOpens(args, resp) ==
    /\ llm_pc = "idle"
    /\ ~TransportFails(resp)
    /\ llm_request' = Request("_stream", args, build_request(TRUE, args))
    /\ llm_outcome' = NoResult
    /\ llm_response' = resp /\ llm_pos' = 0 /\ llm_emitted' = << >>
    /\ llm_pc' = "iter"
    /\ UNCHANGED sessionVars

LLMNextLine == llm_response.lines[llm_pos + 1]

LLMStreamSkip ==
    /\ llm_pc = "iter" /\ llm_pos < Len(llm_response.lines)
    /\ LLM_stream_line(LLMNextLine).act = "skip"
    /\ llm_pos' = llm_pos + 1
    /\ UNCHANGED << sessionVars, llm_pc, llm_response, llm_emitted, llm_outcome, llm_request >>

\* break: the generator returns
LLMStreamBreak ==
    /\ llm_pc = "iter" /\ llm_pos < Len(llm_response.lines)
    /\ LLM_stream_line(LLMNextLine).act = "break"
    /\ llm_pos' = llm_pos + 1
    /\ llm_pc' = "idle"
    /\ llm_outcome' = Returned("")
    /\ UNCHANGED << sessionVars, llm_response, llm_emitted, llm_request >>

\* yield GenerationChunk(text=content)
LLMStreamYield ==
    /\ llm_pc = "iter" /\ llm_pos < Len(llm_response.lines)
    /\ LLM_stream_line(LLMNextLine).act = "yield"
    /\ llm_pos' = llm_pos + 1
    /\ llm_emitted' = Append(llm_emitted, LLM_stream_line(LLMNextLine).chunk)
    /\ llm_pc' = "yielded"
    /\ UNCHANGED << sessionVars, llm_response, llm_outcome, llm_request >>

\* `except Exception`: raise RuntimeError
LLMStreamRaise ==
    /\ llm_pc = "iter" /\ llm_pos < Len(llm_response.lines)
    /\ LLM_stream_line(LLMNextLine).act = "raise"
    /\ llm_pos' = llm_pos + 1
    /\ llm_pc' = "idle"
    /\ llm_outcome' = Raised("RuntimeError", "DeepSeek API streaming error: "
                                              \o LLM_stream_line(LLMNextLine).chunk)
    /\ UNCHANGED << sessionVars, llm_response, llm_emitted, llm_request >>

LLMStreamExhausted ==
    /\ llm_pc = "iter" /\ llm_pos = Len(llm_response.lines)
    /\ llm_pc' = "idle"
    /\ llm_outcome' = Returned("")
    /\ UNCHANGED << sessionVars, llm_response, llm_pos, llm_emitted, llm_request >>

\* iter_lines() raises a RequestException mid-stream
LLMStreamConnectionLost ==
    /\ llm_pc = "iter"
    /\ llm_pc' = "idle"
    /\ llm_outcome' = Raised("RuntimeError", "DeepSeek API streaming request failed")
    /\ UNCHANGED << sessionVars, llm_response, llm_pos, llm_emitted, llm_request >>

LLMCallerPull ==
    /\ llm_pc = "yielded"
    /\ llm_pc' = "iter"
    /\ UNCHANGED << sessionVars, llm_response, llm_pos, llm_emitted, llm_outcome, llm_request >>

LLMCallerStop ==
    /\ llm_pc = "yielded"
    /\ llm_pc' = "idle"
    /\ llm_outcome' = [NoResult EXCEPT !.exception = "GeneratorExit"]
    /\ UNCHANGED << sessionVars, llm_response, llm_pos, llm_emitted, llm_request >>

-----------------------------------------------------------------------------
(* start_interactive_chat: the loop that reads a line and handles it *)

\* a line as typed, after strip(): a command word with its argument, or a text
Typed(cmd, arg) == [cmd |-> cmd, arg |-> arg]

\* the lines a user types
LineKinds ==
    { Typed("", ""), Typed("/quit", ""), Typed("/config", ""), Typed("/clear", ""),
      Typed("/save", "f.json"), Typed("/load", "f.json"), Typed("/bogus", ""),
      Typed("", "hi") }

\* what a user types during a run
TypedLines == UNION { [1..n -> LineKinds] : n \in 0..MaxTyped }

\* the streamed responses offered to the loop
LoopStreams ==
    { HttpErrorStatus,
      EventStream(<< BlankLine, DeltaLine("A") >>),
      EventStream(<< DeltaLine("A"), DoneLine >>),
      EventStream(<< DeltaLine("A"), NullContentLine >>) }

\* chat = DeepSeekInteractiveChat(), the banner, and the loop is entered
StartLoop(lines) ==
    /\ loop = "off" /\ pc = "idle" /\ turns = 0 /\ llm_outcome = NoResult
    /\ outcome = "none"
    /\ stdin' = lines
    /\ loop' = "input"
    /\ UNCHANGED << sessionVars, llmVars, diskVars >>

\* input() returns the next line
AtInput == loop = "input" /\ pc = "idle" /\ stdin # << >>

\* the line is used up and the loop is back at input()
Consume == stdin' = Tail(stdin) /\ loop' = "input"

\* `if not user_input: continue`
LoopBlank ==
    /\ AtInput /\ Head(stdin) = Typed("", "")
    /\ Consume
    /\ UNCHANGED << sessionVars, llmVars, diskVars >>

\* /quit: break
LoopQuit ==
    /\ AtInput /\ Head(stdin).cmd = "/quit"
    /\ stdin' = Tail(stdin)
    /\ loop' = "quit"
    /\ UNCHANGED << sessionVars, llmVars, diskVars >>

\* /help, /config and an unknown command print and continue
LoopPrints ==
    /\ AtInput /\ Head(stdin).cmd \in { "/help", "/config", "/bogus" }
    /\ Consume
    /\ UNCHANGED << sessionVars, llmVars, diskVars >>

\* a plausible slip: the exception leaves the loop
LoopHandlerError_leaves ==
    /\ AtInput /\ Head(stdin).cmd = "/config"
    /\ stdin' = Tail(stdin)
    /\ loop' = "raised"
    /\ outcome' = "loop_error"
    /\ UNCHANGED << system_prompt, few_shot_examples, conversation_history, pc,
                    user_input, full_prompt, response, pos, full_response,
                    emitted, history_at_call, turns, llmVars, diskVars >>

\* an exception raised by a handler (show_config on a restored prompt that is
\* no text) reaches `except Exception`: it is printed and the loop goes on
LoopHandlerError ==
    /\ AtInput /\ Head(stdin).cmd = "/config"
    /\ Consume
    /\ outcome' = "loop_error"
    /\ UNCHANGED << system_prompt, few_shot_examples, conversation_history, pc,
                    user_input, full_prompt, response, pos, full_response,
                    emitted, history_at_call, turns, llmVars, diskVars >>

\* input() raises EOFError at the end of the input: printed, and the loop goes on
LoopInputError ==
    /\ loop = "input" /\ pc = "idle" /\ stdin = << >>
    /\ outcome' = "loop_error"
    /\ UNCHANGED << system_prompt, few_shot_examples, conversation_history, pc,
                    user_input, full_prompt, response, pos, full_response,
                    emitted, history_at_call, turns, llmVars, diskVars, loopVars >>

\* /clear
LoopClear ==
    /\ AtInput /\ Head(stdin).cmd = "/clear"
    /\ clear_history
    /\ Consume
    /\ UNCHANGED diskVars

\* /save <filename>
LoopSave ==
    /\ AtInput /\ Head(stdin).cmd = "/save" /\ Head(stdin).arg # ""
    /\ SaveConversation
    /\ Consume

LoopSaveFails(truncated) ==
    /\ AtInput /\ Head(stdin).cmd = "/save" /\ Head(stdin).arg # ""
    /\ SaveConversationFails(truncated)
    /\ Consume

\* /load <filename>
LoopLoad ==
    /\ AtInput /\ Head(stdin).cmd = "/load" /\ Head(stdin).arg # ""
    /\ load_conversation(saved_file)
    /\ Consume
    /\ UNCHANGED diskVars

\* any other line is a turn: `for chunk in chat.chat_stream(user_input)`
LoopChatFails(resp) ==
    /\ AtInput /\ Head(stdin).cmd = "" /\ Head(stdin).arg # ""
    /\ ChatStreamFails(Head(stdin).arg, resp)
    /\ Consume
    /\ UNCHANGED diskVars

LoopChatOpens(resp) ==
    /\ AtInput /\ Head(stdin).cmd = "" /\ Head(stdin).arg # ""
    /\ ChatStreamOpens(Head(stdin).arg, resp)
    /\ Consume
    /\ UNCHANGED diskVars

\* KeyboardInterrupt, wherever the loop stands: break.  A running chat_stream
\* is left where it is; `except Exception` does not catch the interrupt.
LoopInterrupt ==
    /\ loop = "input"
    /\ loop' = "interrupted"
    /\ pc' = "idle"
    /\ outcome' = IF pc = "idle" THEN outcome ELSE "abandoned"
    /\ UNCHANGED << system_prompt, few_shot_examples, conversation_history,
                    user_input, full_prompt, response, pos, full_response,
                    emitted, history_at_call, turns, llmVars, diskVars, stdin >>

-----------------------------------------------------------------------------
(* Specifications *)

\* a session used through all of its operations
Next ==
    \/ UNCHANGED outsideVars /\ \E p \in NewPrompts : update_system_prompt(p)
    \/ UNCHANGED outsideVars /\ \E e \in NewExamples : AddFewShotExample(e)
    \/ UNCHANGED outsideVars /\ clear_few_shot_examples
    \/ UNCHANGED outsideVars /\ clear_history
    \/ UNCHANGED outsideVars /\ \E f \in Files : load_conversation(f)
    \/ UNCHANGED outsideVars /\ turns < MaxTurns
         /\ \E u \in UserInputs, r \in CallResponses : ChatOnceError(u, r)
    \/ UNCHANGED outsideVars /\ turns < MaxTurns
         /\ \E u \in UserInputs, r \in CallResponses : ChatOnceReply(u, r)
    \/ UNCHANGED outsideVars /\ turns < MaxTurns
         /\ \E u \in UserInputs, r \in SessionStreams : ChatStreamFails(u, r)
    \/ UNCHANGED outsideVars /\ turns < MaxTurns
         /\ \E u \in UserInputs, r \in SessionStreams : ChatStreamOpens(u, r)
    \/ UNCHANGED outsideVars /\ StreamSkip
    \/ UNCHANGED outsideVars /\ StreamBreak
    \/ UNCHANGED outsideVars /\ StreamYield
    \/ UNCHANGED outsideVars /\ StreamRaise
    \/ UNCHANGED outsideVars /\ StreamExhausted
    \/ UNCHANGED outsideVars /\ StreamConnectionLost
    \/ UNCHANGED outsideVars /\ CallerPull
    \/ UNCHANGED outsideVars /\ CallerStop
    \/ UNCHANGED outsideVars /\ AddUserToHistory
    \/ UNCHANGED outsideVars /\ AddAssistantToHistory

Spec == Init /\ [][Next]_vars

\* the files of other origin offered to a session that saves and loads
OtherFiles == { SystemRoleFile, BrokenFile }

\* the answers offered to chat_once in a session that saves and loads
FileResponses == { HttpErrorStatus, Completion("R") }

\* A session that is saved to a file and restored from it, among its other
\* operations.
NextFile ==
    \/ UNCHANGED outsideVars /\ \E p \in NewPrompts : update_system_prompt(p)
    \/ UNCHANGED outsideVars /\ \E e \in NewExamples : AddFewShotExample(e)
    \/ UNCHANGED outsideVars /\ clear_few_shot_examples
    \/ UNCHANGED outsideVars /\ clear_history
    \/ UNCHANGED outsideVars /\ \E f \in OtherFiles : load_conversation(f)
    \/ UNCHANGED outsideVars /\ load_conversation(saved_file)
    \/ UNCHANGED loopVars /\ SaveConversation
    \/ UNCHANGED loopVars /\ \E truncated \in BOOLEAN : SaveConversationFails(truncated)
    \/ UNCHANGED outsideVars /\ turns < MaxTurns
         /\ \E u \in StreamInputs, r \in FileResponses : ChatOnceError(u, r)
    \/ UNCHANGED outsideVars /\ turns < MaxTurns
         /\ \E u \in StreamInputs, r \in FileResponses : ChatOnceReply(u, r)
    \/ UNCHANGED outsideVars /\ AddUserToHistory
    \/ UNCHANGED outsideVars /\ AddAssistantToHistory

SpecFile == Init /\ [][NextFile]_vars

\* the streamed responses offered to a session that only chats
ExchangeStreams ==
    { HttpErrorStatus,
      EventStream(<< BlankLine, DeltaLine("R") >>),
      EventStream(<< DeltaLine("R"), DoneLine >>),
      EventStream(<< DeltaLine("R"), NullContentLine >>) }

\* A session that is only chatted with, and cleared, from its empty history
\* on, for long enough to fill the history and go on.
NextExchanges ==
    \/ UNCHANGED outsideVars /\ clear_history
    \/ UNCHANGED outsideVars /\ turns < MaxExchanges
         /\ \E u \in StreamInputs, r \in FileResponses : ChatOnceError(u, r)
    \/ UNCHANGED outsideVars /\ turns < MaxExchanges
         /\ \E u \in StreamInputs, r \in FileResponses : ChatOnceReply(u, r)
    \/ UNCHANGED outsideVars /\ turns < MaxExchanges
         /\ \E u \in StreamInputs, r \in ExchangeStreams : ChatStreamFails(u, r)
    \/ UNCHANGED outsideVars /\ turns < MaxExchanges
         /\ \E u \in StreamInputs, r \in ExchangeStreams : ChatStreamOpens(u, r)
    \/ UNCHANGED outsideVars /\ StreamSkip
    \/ UNCHANGED outsideVars /\ StreamBreak
    \/ UNCHANGED outsideVars /\ StreamYield
    \/ UNCHANGED outsideVars /\ StreamRaise
    \/ UNCHANGED outsideVars /\ StreamExhausted
    \/ UNCHANGED outsideVars /\ StreamConnectionLost
    \/ UNCHANGED outsideVars /\ CallerPull
    \/ UNCHANGED outsideVars /\ CallerStop
    \/ UNCHANGED outsideVars /\ AddUserToHistory
    \/ UNCHANGED outsideVars /\ AddAssistantToHistory

SpecExchanges == Init /\ [][NextExchanges]_vars

\* the steps the interactive loop takes by itself
LoopProgram ==
    \/ LoopBlank
    \/ LoopQuit
    \/ LoopPrints
    \/ LoopHandlerError
    \/ LoopInputError
    \/ LoopClear
    \/ LoopSave
    \/ \E truncated \in BOOLEAN : LoopSaveFails(truncated)
    \/ LoopLoad
    \/ \E r \in LoopStreams : LoopChatFails(r)
    \/ \E r \in LoopStreams : LoopChatOpens(r)
    \/ loop = "input" /\ UNCHANGED outsideVars /\ StreamSkip
    \/ loop = "input" /\ UNCHANGED outsideVars /\ StreamBreak
    \/ loop = "input" /\ UNCHANGED outsideVars /\ StreamYield
    \/ loop = "input" /\ UNCHANGED outsideVars /\ StreamRaise
    \/ loop = "input" /\ UNCHANGED outsideVars /\ StreamExhausted
    \/ loop = "input" /\ UNCHANGED outsideVars /\ CallerPull
    \/ loop = "input" /\ UNCHANGED outsideVars /\ AddUserToHistory
    \/ loop = "input" /\ UNCHANGED outsideVars /\ AddAssistantToHistory

\* the interactive loop, the user at the keyboard and the network
NextLoop ==
    \/ \E lines \in TypedLines : StartLoop(lines)
    \/ LoopProgram
    \/ loop = "input" /\ UNCHANGED outsideVars /\ StreamConnectionLost
    \/ LoopInterrupt

\* the loop is a sequential program: it takes its next step whenever it has one
SpecLoop == Init /\ [][NextLoop]_vars /\ WF_vars(LoopProgram)

\* nothing has been called yet
Fresh == pc = "idle" /\ turns = 0 /\ llm_pc = "idle" /\ llm_outcome = NoResult

\* One streamed exchange of a session, or one direct call of the adapter, over
\* every line sequence.  The session's chat_stream and the adapter's _stream
\* share no state, and the adapter keeps none between calls: a run makes one
\* call, and the runs together show both consumers on every response.
NextStream ==
    \/ UNCHANGED outsideVars /\ Fresh
         /\ \E u \in StreamInputs, r \in AllStreams : ChatStreamFails(u, r)
    \/ UNCHANGED outsideVars /\ Fresh
         /\ \E u \in StreamInputs, r \in AllStreams : ChatStreamOpens(u, r)
    \/ UNCHANGED outsideVars /\ StreamSkip
    \/ UNCHANGED outsideVars /\ StreamBreak
    \/ UNCHANGED outsideVars /\ StreamYield
    \/ UNCHANGED outsideVars /\ StreamRaise
    \/ UNCHANGED outsideVars /\ StreamExhausted
    \/ UNCHANGED outsideVars /\ StreamConnectionLost
    \/ UNCHANGED outsideVars /\ CallerPull
    \/ UNCHANGED outsideVars /\ CallerStop
    \/ UNCHANGED outsideVars /\ AddUserToHistory
    \/ UNCHANGED outsideVars /\ AddAssistantToHistory
    \/ UNCHANGED outsideVars /\ Fresh /\ \E r \in CallResponses : LLMCall(PlainArgs, r)
    \/ UNCHANGED outsideVars /\ Fresh /\ \E r \in AllStreams : LLMStreamFails(PlainArgs, r)
    \/ UNCHANGED outsideVars /\ Fresh /\ \E r \in AllStreams : LLMStreamOpens(PlainArgs, r)
    \/ UNCHANGED outsideVars /\ LLMStreamSkip
    \/ UNCHANGED outsideVars /\ LLMStreamBreak
    \/ UNCHANGED outsideVars /\ LLMStreamYield
    \/ UNCHANGED outsideVars /\ LLMStreamRaise
    \/ UNCHANGED outsideVars /\ LLMStreamExhausted
    \/ UNCHANGED outsideVars /\ LLMStreamConnectionLost
    \/ UNCHANGED outsideVars /\ LLMCallerPull
    \/ UNCHANGED outsideVars /\ LLMCallerStop

SpecStream == Init /\ [][NextStream]_vars

\* One direct call of the adapter, over the arguments a caller can give it.
NextRequest ==
    \/ UNCHANGED outsideVars /\ Fresh
         /\ \E a \in RequestArgs, r \in CallResponses : LLMCall(a, r)
    \/ UNCHANGED outsideVars /\ Fresh
         /\ \E a \in RequestArgs, r \in { ConnectionFailure, HttpErrorStatus } :
                LLMStreamFails(a, r)
    \/ UNCHANGED outsideVars /\ Fresh
         /\ \E a \in RequestArgs, r \in RequestStreams : LLMStreamOpens(a, r)
    \/ UNCHANGED outsideVars /\ LLMStreamSkip
    \/ UNCHANGED outsideVars /\ LLMStreamBreak
    \/ UNCHANGED outsideVars /\ LLMStreamYield
    \/ UNCHANGED outsideVars /\ LLMStreamRaise
    \/ UNCHANGED outsideVars /\ LLMStreamExhausted
    \/ UNCHANGED outsideVars /\ LLMStreamConnectionLost
    \/ UNCHANGED outsideVars /\ LLMCallerPull
    \/ UNCHANGED outsideVars /\ LLMCallerStop

SpecRequest == Init /\ [][NextRequest]_vars

-----------------------------------------------------------------------------
(* Properties *)

\* C1: in every state reachable by add_few_shot_example, clear_few_shot_examples
\* and load_conversation the few-shot set holds at most 3 entries.
FewShotAtMostThree == Len(few_shot_examples) <= FewShotCapacity

\* the message an append step is about to add
PendingMessage ==
    IF pc = "add_user" THEN ChatMessage("user", user_input)
    ELSE ChatMessage("assistant", full_response)

\* an append step leaves the new message last and, before it, the latest
\* entries of the history as it was
AppendStepKeepsTail ==
    pc \in { "add_user", "add_assistant" } =>
        LET n == Len(conversation_history)
            k == Min(max_history_length, n + 1)
        IN  /\ Len(conversation_history') = k
            /\ k <= max_history_length
            /\ conversation_history'[k] = PendingMessage
            /\ \A i \in 1..(k - 1) :
                   conversation_history'[i] = conversation_history[n - (k - 1) + i]

\* C2: an append leaves at most 20 entries: the new message last, and before it
\* the latest entries of the history as it was, in unchanged order, however
\* long that history was.
AppendKeepsLatestTwenty == [][AppendStepKeepsTail]_vars

\* C2 witness: an append made on a restored history of more than 20 entries
AppendOnLongHistory ==
    /\ pc = "add_assistant"
    /\ Len(history_at_call) > max_history_length
    /\ Len(conversation_history) = max_history_length
    /\ conversation_history[max_history_length] = ChatMessage("user", user_input)

\* the section of the prompt a part belongs to
Section(part) ==
    IF part.kind = "system" THEN 1
    ELSE IF part.kind \in { "fewshot_header", "example_no", "fs_user", "fs_assistant" } THEN 2
    ELSE IF part.kind \in { "history_header", "hist_user", "hist_assistant", "blank" } THEN 3
    ELSE 4

PartsOfKind(prompt, kinds) == SelectSeq(prompt, LAMBDA part : part.kind \in kinds)

\* C3: the prompt is laid out system block, few-shot examples, history lines,
\* new user input; no part of a later section precedes a part of an earlier one.
PromptSectionsInOrder ==
    full_prompt # << >> =>
        /\ \A i \in 1..(Len(full_prompt) - 1) :
               Section(full_prompt[i]) <= Section(full_prompt[i + 1])
        /\ full_prompt[1] = Part("system", system_prompt)
        /\ full_prompt[Len(full_prompt)] = Part("question", user_input)
        /\ Len(PartsOfKind(full_prompt, { "system" })) = 1
        /\ Len(PartsOfKind(full_prompt, { "question" })) = 1
        /\ Len(PartsOfKind(full_prompt, { "fs_user" })) = Len(few_shot_examples)
        /\ Len(PartsOfKind(full_prompt, { "fs_assistant" })) = Len(few_shot_examples)

\* C3 witness: a prompt built with examples and with history
PromptWithAllSections ==
    /\ full_prompt # << >>
    /\ \E i \in 1..Len(full_prompt) : full_prompt[i].kind = "fs_user"
    /\ \E i \in 1..Len(full_prompt) : full_prompt[i].kind = "hist_assistant"

\* the messages the history lines of a prompt stand for
RenderedMessages(prompt) ==
    LET shown == PartsOfKind(prompt, { "hist_user", "hist_assistant" })
    IN  [ i \in 1..Len(shown) |->
            ChatMessage(IF shown[i].kind = "hist_user" THEN "user" ELSE "assistant",
                        shown[i].text) ]

\* the last 6 entries of a history, found by counting from its end
Window(history) ==
    [ i \in 1..Min(RecentWindow, Len(history)) |->
        history[Len(history) - Min(RecentWindow, Len(history)) + i] ]

\* C4 as stated: the prompt renders exactly the last 6 entries of the history,
\* in order, none of them omitted.
PromptRendersLastSix ==
    full_prompt # << >> => RenderedMessages(full_prompt) = Window(history_at_call)

\* C4 amended: the prompt renders, in order, exactly those of the last 6 entries
\* whose role is user or assistant; an entry with another role gets no line.
PromptRendersLastSixUserAssistant ==
    full_prompt # << >> =>
        RenderedMessages(full_prompt) =
            SelectSeq(Window(history_at_call),
                      LAMBDA msg : msg.role = "user" \/ msg.role = "assistant")

\* C4 witness: a prompt built on a history longer than 6 with a system entry
\* among its last 6
PromptOverSystemEntry ==
    /\ full_prompt # << >>
    /\ Len(history_at_call) > RecentWindow
    /\ \E i \in 1..Len(Window(history_at_call)) :
           Window(history_at_call)[i].role = "system"

\* a data line whose payload, trimmed, is the end sentinel
IsSentinel(line) == ~line.raw_empty /\ line.prefix /\ line.body = "[DONE]"

\* a data line whose first choice's delta carries a text
IsDeltaLine(line) ==
    /\ ~line.raw_empty /\ line.prefix /\ line.body = "json"
    /\ line.json.is_object /\ line.json.has_choices /\ line.json.n_choices > 0
    /\ line.json.has_delta /\ line.json.has_content /\ ~line.json.content_null

\* a blank line, a line without the data prefix, or a payload that is not JSON
IsIgnoredLine(line) ==
    \/ line.raw_empty
    \/ ~line.prefix
    \/ line.body \notin { "[DONE]", "json" }

\* the texts of the delta lines of a line sequence, in order
DeltaTexts(lines) ==
    LET d == SelectSeq(lines, IsDeltaLine)
    IN  [ i \in 1..Len(d) |-> d[i].json.content ]

\* delta lines d1..dn followed by the end sentinel
DeltasThenDone(lines) ==
    /\ Len(lines) >= 1
    /\ IsSentinel(lines[Len(lines)])
    /\ \A i \in 1..(Len(lines) - 1) : IsDeltaLine(lines[i])

\* C5: on delta lines d1..dn followed by the end sentinel the consumer hands
\* d1..dn to the caller in that order and stops at the sentinel, and the
\* assistant message put in the history is d1+...+dn.  (_stream, which writes
\* no history, hands over the same texts less the empty ones.)
StreamDeliversDeltas ==
    /\ (outcome \in { "running", "completed" } /\ DeltasThenDone(response.lines)) =>
           LET d == DeltaTexts(response.lines)
           IN  /\ Len(emitted) <= Len(d)
               /\ emitted = SubSeq(d, 1, Len(emitted))
               /\ pc = "iter" => pos < Len(response.lines)
               /\ pc \in { "add_user", "add_assistant" } => emitted = d
               /\ outcome = "completed" =>
                      /\ emitted = d
                      /\ conversation_history =
                             << ChatMessage("user", user_input),
                                ChatMessage("assistant", Concat(d)) >>
    /\ (llm_outcome = Returned("") /\ DeltasThenDone(llm_response.lines)) =>
           /\ llm_emitted =
                  SelectSeq(DeltaTexts(llm_response.lines), LAMBDA text : text # "")
           /\ Concat(llm_emitted) = Concat(DeltaTexts(llm_response.lines))

\* C5 witness: the exchange over deltas A, B and the sentinel has completed
StreamOfABDoneCompleted ==
    /\ outcome = "completed"
    /\ response.lines = << DeltaLine("A"), DeltaLine("B"), DoneLine >>
    /\ emitted = << "A", "B" >>
    /\ conversation_history[2] = ChatMessage("assistant", "AB")

\* the line read last is the end sentinel
SentinelRead == pos > 0 /\ IsSentinel(response.lines[pos])

LLMSentinelRead == llm_pos > 0 /\ IsSentinel(llm_response.lines[llm_pos])

\* once the sentinel is read the consumer is out of its loop and stays there
StepAfterSentinel ==
    /\ SentinelRead =>
           /\ pc \notin { "iter", "yielded" }
           /\ pos' = pos /\ emitted' = emitted /\ full_response' = full_response
    /\ LLMSentinelRead =>
           /\ llm_pc = "idle"
           /\ llm_pc' = "idle" /\ llm_pos' = llm_pos /\ llm_emitted' = llm_emitted

\* C6: once a data line whose trimmed payload is [DONE] is read, no later line
\* is read, parsed, emitted or accumulated, whatever it contains.
StopsAtSentinel == [][StepAfterSentinel]_vars

\* C6 witness: the exchange completed at a sentinel that a delta line follows
SentinelBeforeDeltaCompleted ==
    /\ outcome = "completed"
    /\ SentinelRead
    /\ pos < Len(response.lines)
    /\ IsDeltaLine(response.lines[pos + 1])

\* only ignored lines, delta lines and sentinels
IgnoredDeltaOrDone(lines) ==
    \A i \in 1..Len(lines) :
        IsIgnoredLine(lines[i]) \/ IsDeltaLine(lines[i]) \/ IsSentinel(lines[i])

\* the exceptions that handling a line can raise
LineExceptions == { "TypeError", "JSONDecodeError" }

\* C7: blank lines, lines without the data prefix and data lines that are not
\* parseable JSON are passed over without an error: the deltas of the lines
\* read so far have all been handed over, in order, and the stream completes.
IgnoredLinesAreSkipped ==
    /\ IgnoredDeltaOrDone(response.lines) =>
           /\ outcome \in { "running", "completed" } =>
                  emitted = DeltaTexts(SubSeq(response.lines, 1, pos))
           /\ \A i \in 1..Len(emitted), e \in LineExceptions :
                  emitted[i] # StreamErrorMsg(e)
    /\ IgnoredDeltaOrDone(llm_response.lines) =>
           /\ llm_emitted =
                  SelectSeq(DeltaTexts(SubSeq(llm_response.lines, 1, llm_pos)),
                            LAMBDA text : text # "")
           /\ \A e \in LineExceptions :
                  llm_outcome.message # "DeepSeek API streaming error: " \o e

\* C7 witness: a malformed line between two delta lines, and the exchange
\* completed with both deltas handed over
MalformedBetweenDeltasCompleted ==
    /\ outcome = "completed"
    /\ response.lines = << DeltaLine("A"), BadJsonLine, DeltaLine("B") >>
    /\ emitted = << "A", "B" >>

\* C8: a fragment is handed to the caller only when the text delta is not
\* empty, in _stream and in chat_stream.
EmitsOnlyNonEmpty ==
    /\ \A i \in 1..Len(emitted) : emitted[i] # ""
    /\ \A i \in 1..Len(llm_emitted) : llm_emitted[i] # ""

\* the trim of an append, by counting from the end
Latest(history) ==
    [ i \in 1..Min(max_history_length, Len(history)) |->
        history[Len(history) - Min(max_history_length, Len(history)) + i] ]

\* C9: the history does not change while fragments are handed over; at
\* completion exactly two messages are appended, the user input and then the
\* assistant message with the accumulated text, each append trimmed to 20.
HistoryUpdatedOnlyAtCompletion ==
    /\ pc \in { "iter", "yielded", "add_user" } => conversation_history = history_at_call
    /\ outcome \in { "running", "completed" } => full_response = Concat(emitted)
    /\ outcome = "running" => pc # "idle"
    /\ (pos > 0 /\ IsSentinel(response.lines[pos])) =>
           pc \in { "add_user", "add_assistant" } \/ outcome = "completed"
    /\ pc = "add_assistant" =>
           conversation_history =
               Latest(Append(history_at_call, ChatMessage("user", user_input)))
    /\ outcome = "completed" =>
           conversation_history =
               Latest(Append(
                   Latest(Append(history_at_call, ChatMessage("user", user_input))),
                   ChatMessage("assistant", Concat(emitted))))

\* C9 witness: a streamed exchange of two fragments completed on a history that
\* both appends had to trim
StreamCompletedOnFullHistory ==
    /\ outcome = "completed"
    /\ response.lines # << >>
    /\ emitted = << "A", "B" >>
    /\ Len(history_at_call) >= max_history_length

CallMade == llm_outcome # NoResult

\* a 2xx answer that carries no first choice
EmptyAnswer(resp) ==
    ~TransportFails(resp) /\ ~(resp.has_choices /\ resp.n_choices > 0)

\* C11: a 2xx non-streaming answer without choices, or with an empty choices
\* list, makes _call fail with the error of the empty answer, which is not the
\* error of a failed request; a failed request fails with that one; any other
\* answer returns the first choice's message content.
EmptyAnswerFailsApart ==
    CallMade =>
        /\ EmptyAnswer(response) =>
               /\ llm_outcome = Raised("RuntimeError", "DeepSeek API error")
               /\ llm_outcome # Raised("RuntimeError", "DeepSeek API request failed")
        /\ TransportFails(response) =>
               llm_outcome = Raised("RuntimeError", "DeepSeek API request failed")
        /\ (~TransportFails(response) /\ ~EmptyAnswer(response)) =>
               /\ llm_outcome = Returned(response.content)
               /\ full_response = response.content

\* C11 witness: chat_once met a 2xx answer with an empty choices list
ChatOnceMetEmptyChoices ==
    /\ response = EmptyChoicesBody
    /\ llm_outcome.raised
    /\ outcome = "error"

\* a load of the file that save_conversation wrote restores what was saved
LoadOfSavedRestores ==
    (saved_state.written /\ load_conversation(saved_file)) =>
        /\ system_prompt' = saved_state.system_prompt
        /\ few_shot_examples' = saved_state.few_shot_examples
        /\ conversation_history' = saved_state.conversation_history
        /\ outcome' = "loaded"

\* C12: save_conversation followed by load_conversation of the same file
\* leaves the system prompt, the few-shot examples (order and all three fields)
\* and the history (order, role, content) equal to those that were saved,
\* whatever the session held before the load.
SaveLoadRoundTrip == [][LoadOfSavedRestores]_vars

\* C12 witness: a session restored from a file saved after one exchange, with
\* an example added and the prompt replaced, and a second exchange begun since
SessionRestoredFromSavedFile ==
    /\ outcome = "loaded"
    /\ saved_state.written
    /\ turns = MaxTurns
    /\ system_prompt = "terse prompt" /\ saved_state.system_prompt = system_prompt
    /\ few_shot_examples = << DefaultFewShotExamples[2], DefaultFewShotExamples[3],
                              FewShotExample("q4", "a4", "d4") >>
    /\ saved_state.few_shot_examples = few_shot_examples
    /\ conversation_history = << ChatMessage("user", "hi"), ChatMessage("assistant", "R") >>
    /\ saved_state.conversation_history = conversation_history

\* the texts of the parts of one kind, in the order of the prompt
TextsOfKind(prompt, kind) ==
    LET chosen == PartsOfKind(prompt, { kind })
    IN  [ i \in 1..Len(chosen) |-> chosen[i].text ]

\* the prompt lists every example once, in the order of the list
PromptListsExamples(prompt, examples) ==
    /\ TextsOfKind(prompt, "fs_user") =
           [ i \in 1..Len(examples) |-> examples[i].user_input ]
    /\ TextsOfKind(prompt, "fs_assistant") =
           [ i \in 1..Len(examples) |-> examples[i].assistant_response ]
    /\ TextsOfKind(prompt, "example_no") =
           [ i \in 1..Len(examples) |-> ToString(i) ]

\* what add_few_shot_example makes of a list of three, and of a shorter one
AddStepIsFifo ==
    \A e \in NewExamples :
        AddFewShotExample(e) =>
            /\ Len(few_shot_examples) = FewShotCapacity =>
                   few_shot_examples' =
                       << few_shot_examples[2], few_shot_examples[3], e >>
            /\ Len(few_shot_examples) < FewShotCapacity =>
                   /\ Len(few_shot_examples') = Len(few_shot_examples) + 1
                   /\ few_shot_examples'[Len(few_shot_examples')] = e
                   /\ \A i \in 1..Len(few_shot_examples) :
                          few_shot_examples'[i] = few_shot_examples[i]

\* C13: add_few_shot_example turns [e1,e2,e3] into [e2,e3,e_new] and appends to
\* a shorter list without evicting; the examples that stay keep their order, and
\* a prompt lists all current examples in that order.
FewShotIsFifoAndListedInOrder ==
    [][ /\ AddStepIsFifo
        /\ full_prompt' # << >> =>
               PromptListsExamples(full_prompt', few_shot_examples') ]_vars

\* C13 witness: a prompt built after a fourth example evicted the first
PromptAfterEviction ==
    /\ full_prompt # << >>
    /\ few_shot_examples = << DefaultFewShotExamples[2], DefaultFewShotExamples[3],
                              FewShotExample("q4", "a4", "d4") >>
    /\ TextsOfKind(full_prompt, "fs_user") = << "exceptions?", "blockchain?", "q4" >>

\* the keys every request body has
BaseKeys == { "model", "messages", "temperature", "max_tokens", "top_p", "stream" }

\* C14: the body of a request has a stop field only when the caller gave stop
\* sequences, and then it holds them; every keyword override is in the body with
\* the caller's value, whatever field it names; a field not overridden keeps
\* its own value: messages is one user-role entry whose content is the prompt,
\* stream tells _stream from _call.
RequestBodyAsBuilt ==
    llm_request.op # "none" =>
        LET given == llm_request.args
            body == llm_request.body
        IN  /\ ("stop" \in DOMAIN body) <=> (given.stop.given /\ given.stop.seqs # << >>)
            /\ "stop" \in DOMAIN body => body["stop"] = given.stop.seqs
            /\ \A k \in DOMAIN given.kwargs :
                   k \in DOMAIN body /\ body[k] = given.kwargs[k]
            /\ BaseKeys \subseteq DOMAIN body
            /\ DOMAIN body \subseteq BaseKeys \cup { "stop" } \cup DOMAIN given.kwargs
            /\ "messages" \notin DOMAIN given.kwargs =>
                   /\ Len(body["messages"]) = 1
                   /\ body["messages"][1] = [role |-> "user", content |-> given.prompt]
            /\ "stream" \notin DOMAIN given.kwargs =>
                   body["stream"] = (llm_request.op = "_stream")
            /\ "model" \notin DOMAIN given.kwargs => body["model"] = model_name

\* C14 witness: _call sent a body with the caller's stop sequences and with the
\* stream field overridden
CallWithStopAndStreamOverride ==
    /\ llm_request.op = "_call"
    /\ llm_outcome # NoResult
    /\ "stream" \in DOMAIN llm_request.args.kwargs
    /\ llm_request.body["stream"] = TRUE
    /\ "stop" \in DOMAIN llm_request.body
    /\ llm_request.body["stop"] = << "END" >>

\* /quit is among the lines still to be read
QuitTyped == \E i \in 1..Len(stdin) : stdin[i].cmd = "/quit"

\* the loop has been left
LoopEnded == loop \in { "quit", "interrupted" }

\* a step that leaves the loop is the reading of /quit or a keyboard
\* interrupt; a step that reports an error leaves the loop at input()
LoopStepRule ==
    /\ (loop = "input" /\ loop' # "input") =>
           \/ /\ loop' = "quit"
              /\ pc = "idle" /\ stdin # << >> /\ Head(stdin).cmd = "/quit"
           \/ loop' = "interrupted"
    /\ (loop = "input" /\ outcome' # outcome
            /\ outcome' \in { "error", "loop_error", "load_failed", "save_failed" }) =>
           loop' = "input"

\* C15: an error raised while a line is handled is reported and the loop is
\* back at reading; the loop is left only by /quit or a keyboard interrupt;
\* and a run in which /quit is typed comes to its end.
LoopRunsUntilQuitOrInterrupt ==
    /\ [][LoopStepRule]_vars
    /\ (loop = "input" /\ QuitTyped) ~> LoopEnded

\* C15 witness: the loop ended by /quit after an error raised by a handler
QuitAfterHandlerError ==
    /\ loop = "quit"
    /\ outcome = "loop_error"
    /\ stdin = << >>

\* a step that begins an exchange builds the prompt: the session holds
\* afterwards what it held before, and the prompt is the one that the system
\* prompt, the examples, the history and the input determine
PromptBuildStep ==
    turns' # turns =>
        /\ system_prompt' = system_prompt
        /\ few_shot_examples' = few_shot_examples
        /\ conversation_history' = conversation_history
        /\ full_prompt' = build_prompt_with_context(system_prompt, few_shot_examples,
                                                    conversation_history, user_input')
        /\ full_prompt' = build_prompt_with_context(system_prompt', few_shot_examples',
                                                    conversation_history', user_input')

LoadStepIsWhole ==
    \A f \in Files :
        load_conversation(f) =>
            IF LoadFails(f)
            THEN /\ system_prompt' = system_prompt
                 /\ few_shot_examples' = few_shot_examples
                 /\ conversation_history' = conversation_history
            ELSE /\ f.has_system_prompt => system_prompt' = f.system_prompt
                 /\ f.has_few_shot_examples => few_shot_examples' = LoadedExamples(f)
                 /\ f.has_conversation_history =>
                        conversation_history' = LoadedHistory(f)

\* C17: load_conversation replaces the system prompt, the examples and the
\* history by the file's, or, when the load fails, leaves all three as they
\* were; no failed load leaves a mix of old and new parts.
LoadIsAllOrNothing == [][LoadStepIsWhole]_vars

\* the exchange ended without completing: an error was handed over in place of
\* the rest, or the caller stopped pulling
EndedAbnormally == outcome \in { "error", "abandoned" }

\* an exchange that ends abnormally leaves the history it found, and the
\* exchange begun next starts from that history and renders nothing else
AbnormalEndStep ==
    /\ (outcome' \in { "error", "abandoned" }) =>
           conversation_history' = history_at_call'
    /\ (EndedAbnormally /\ turns' # turns) =>
           /\ history_at_call' = history_at_call
           /\ RenderedMessages(full_prompt') =
                  SelectSeq(Window(history_at_call), IsRendered)
           /\ PartsOfKind(full_prompt', { "history_header", "hist_user", "hist_assistant" })
                  = PartsOfKind(full_prompt, { "history_header", "hist_user", "hist_assistant" })

\* C18: when a streaming exchange ends abnormally, by a failure after fragments
\* were handed over or by the caller no longer pulling, the history is as it
\* was before the exchange: neither the input nor the partial text is appended,
\* and the prompt of the next turn is built without them.
AbnormalEndLeavesHistory == [][AbnormalEndStep]_vars

\* C18 witness: the connection broke after a fragment was handed over, on a
\* session with history, and another turn can follow
ConnectionLostAfterFragment ==
    /\ outcome = "error"
    /\ emitted = << "A", StreamErrorMsg("ChunkedEncodingError") >>
    /\ full_response = "A"
    /\ history_at_call # << >>
    /\ conversation_history = history_at_call
    /\ turns < MaxTurns

\* whole exchanges: a user message, then an assistant message, and so on
WholeExchanges(history) ==
    /\ Len(history) % 2 = 0
    /\ \A i \in 1..Len(history) :
           history[i].role = IF i % 2 = 1 THEN "user" ELSE "assistant"

\* C19: between exchanges, in a session that started empty and was only
\* chatted with and cleared, the history has even length and alternates user,
\* assistant from a user message on, also after the two trims of an exchange
\* made on a full history; the 6 entries of the prompt window are then the
\* last 3 whole exchanges.
HistoryHoldsWholeExchanges ==
    pc = "idle" =>
        /\ WholeExchanges(conversation_history)
        /\ Len(conversation_history) <= max_history_length
        /\ WholeExchanges(Window(conversation_history))
        /\ Len(conversation_history) >= RecentWindow =>
               Len(Window(conversation_history)) = RecentWindow

\* C19 witness: an exchange completed on a full history, both appends trimmed
ExchangeCompletedOnFullHistory ==
    /\ pc = "idle"
    /\ outcome = "completed"
    /\ Len(history_at_call) = max_history_length
    /\ Len(conversation_history) = max_history_length
    /\ conversation_history[1].role = "user"

\* JSON data lines that carry no usable text
NoTextLines ==
    { NoChoicesLine, EmptyChoicesLine, NoDeltaLine, NoContentLine, NullContentLine }

\* the first n lines were taken, and all of them carry no text
OnlyNoTextTaken(lines, n) ==
    /\ n > 0 /\ n <= Len(lines)
    /\ \A i \in 1..n : lines[i] \in NoTextLines

\* C20: while only JSON lines without usable text have been taken, chat_stream
\* and _stream have handed over no fragment and reported no exception of a
\* line (only a lost connection can have ended them), and both treat the line
\* taken last in the same way: they skip it.
NoTextLinesAreSkippedAlike ==
    /\ OnlyNoTextTaken(response.lines, pos) =>
           /\ emitted \in { << >>, << StreamErrorMsg("ChunkedEncodingError") >> }
           /\ full_response = ""
           /\ chat_stream_line(response.lines[pos]) = LLM_stream_line(response.lines[pos])
           /\ chat_stream_line(response.lines[pos]).act = "skip"
    /\ OnlyNoTextTaken(llm_response.lines, llm_pos) =>
           /\ llm_emitted = << >>
           /\ LLM_stream_line(llm_response.lines[llm_pos]).act = "skip"
           /\ llm_outcome.raised =>
                  llm_outcome.message = "DeepSeek API streaming request failed"

====
